---------------------------- MODULE Spec2Model ----------------------------
(***************************************************************************)
(* A model of src/appF.py: the Flask backend that serves the metadata of a *)
(* set of instructional videos from one CSV file.                          *)
(*                                                                         *)
(* A Python str is modelled as a sequence of one-character strings, so     *)
(* that slicing, replace, strip, lower, int() and the regular-expression   *)
(* search of pandas' str.contains are computed character by character.     *)
(* A cell of the DataFrame is a record [na, s]: na is TRUE for the NaN     *)
(* pandas reads from an empty CSV cell, and s is the text otherwise.       *)
(***************************************************************************)
EXTENDS Integers, Sequences, FiniteSets, TLC

(***************************************************************************)
(* Python str primitives                                                   *)
(***************************************************************************)

Min(a, b) == IF a <= b THEN a ELSE b

\* s[a:b] for 0 <= a, 0 <= b: Python clamps both ends to len(s).
PySlice(s, a, b) == SubSeq(s, a + 1, Min(b, Len(s)))

UpperLetters ==
    <<"A","B","C","D","E","F","G","H","I","J","K","L","M",
      "N","O","P","Q","R","S","T","U","V","W","X","Y","Z">>

LowerLetters ==
    <<"a","b","c","d","e","f","g","h","i","j","k","l","m",
      "n","o","p","q","r","s","t","u","v","w","x","y","z">>

Digits == <<"0","1","2","3","4","5","6","7","8","9">>

IndexOf(seq, c) == CHOOSE i \in 1..Len(seq) : seq[i] = c

InSeq(seq, c) == \E i \in 1..Len(seq) : seq[i] = c

\* str.lower() on one ASCII character.
LowerChar(c) == IF InSeq(UpperLetters, c) THEN LowerLetters[IndexOf(UpperLetters, c)] ELSE c

\* str.lower()
PyLower(s) == [i \in 1..Len(s) |-> LowerChar(s[i])]

\* The ASCII characters str.strip() and int() treat as whitespace.
Whitespace == {" ", "\t", "\n", "\r", "\f"}

RECURSIVE LStrip(_)
LStrip(s) == IF s # <<>> /\ Head(s) \in Whitespace THEN LStrip(Tail(s)) ELSE s

RECURSIVE RStrip(_)
RStrip(s) ==
    IF s # <<>> /\ s[Len(s)] \in Whitespace THEN RStrip(SubSeq(s, 1, Len(s) - 1)) ELSE s

\* str.strip()
PyStrip(s) == RStrip(LStrip(s))

\* Whether old occurs in s at 1-based position i.
OccursAt(s, old, i) ==
    /\ i + Len(old) - 1 <= Len(s)
    /\ SubSeq(s, i, i + Len(old) - 1) = old

\* str.replace(old, "") for a non-empty old: every non-overlapping occurrence,
\* found left to right, is removed.
RECURSIVE RemoveFrom(_, _, _)
RemoveFrom(s, old, i) ==
    IF i > Len(s) THEN <<>>
    ELSE IF OccursAt(s, old, i) THEN RemoveFrom(s, old, i + Len(old))
    ELSE <<s[i]>> \o RemoveFrom(s, old, i + 1)

PyRemoveAll(s, old) == RemoveFrom(s, old, 1)

\* str(n) for an integer n.
RECURSIVE NatToStr(_)
NatToStr(n) == IF n < 10 THEN <<Digits[n + 1]>> ELSE NatToStr(n \div 10) \o <<Digits[(n % 10) + 1]>>

IntToStr(n) == IF n < 0 THEN <<"-">> \o NatToStr(-n) ELSE NatToStr(n)

\* f"{n:02d}" for n >= 0: at least two digits, zero-padded on the left.
ZeroPad2(n) == IF n < 10 THEN <<"0">> \o NatToStr(n) ELSE NatToStr(n)

\* int(s): surrounding whitespace is ignored, one sign is allowed, and the rest
\* must be decimal digits, with single underscores allowed between digits.
\* The result is [ok, val]; ok = FALSE stands for ValueError.
RECURSIVE DigitsValue(_, _)
DigitsValue(body, acc) ==
    IF body = <<>> THEN acc
    ELSE IF Head(body) = "_" THEN DigitsValue(Tail(body), acc)
    ELSE DigitsValue(Tail(body), 10 * acc + (IndexOf(Digits, Head(body)) - 1))

DigitsWellFormed(body) ==
    /\ body # <<>>
    /\ \A i \in 1..Len(body) : InSeq(Digits, body[i]) \/ body[i] = "_"
    /\ body[1] # "_"
    /\ body[Len(body)] # "_"
    /\ \A i \in 1..(Len(body) - 1) : ~(body[i] = "_" /\ body[i + 1] = "_")

PyInt(s) ==
    LET t == PyStrip(s)
        signed == t # <<>> /\ Head(t) \in {"+", "-"}
        body == IF signed THEN Tail(t) ELSE t
    IN  IF DigitsWellFormed(body)
        THEN [ok |-> TRUE,
              val |-> IF signed /\ Head(t) = "-"
                      THEN 0 - DigitsValue(body, 0) ELSE DigitsValue(body, 0)]
        ELSE [ok |-> FALSE, val |-> 0]

(***************************************************************************)
(* Python re, as pandas' Series.str.contains(pat) uses it (regex=True is   *)
(* the default): re.compile(pat) and then regex.search(text).  The model   *)
(* covers patterns built from literal characters, ".", "(" and "\": the    *)
(* other metacharacters and the class escapes are outside ReSupported and  *)
(* outside the queries the model issues.                                   *)
(***************************************************************************)

\* Lower-case letters c for which "\c" is a bad escape (re.error).
ReBadEscapeLetters == {"c","e","g","h","i","j","k","l","m","o","p","q","y"}

ReUnmodelled == {")", "*", "+", "?", "[", "]", "{", "}", "^", "$", "|"}

ReSupported(pat) ==
    /\ \A i \in 1..Len(pat) : pat[i] \notin ReUnmodelled
    /\ \A i \in 1..(Len(pat) - 1) :
          (pat[i] = "\\" /\ (i = 1 \/ pat[i - 1] # "\\"))
             => (pat[i + 1] \in ReBadEscapeLetters
                   \/ ~(InSeq(LowerLetters, pat[i + 1]) \/ InSeq(UpperLetters, pat[i + 1])
                          \/ InSeq(Digits, pat[i + 1])))

\* re.compile(pat): [ok, toks]; ok = FALSE stands for re.error.  A token is
\* [any, ch]: "." (any character but a newline) or the literal ch.
RECURSIVE ReCompileFrom(_, _)
ReCompileFrom(pat, i) ==
    IF i > Len(pat) THEN [ok |-> TRUE, toks |-> <<>>]
    ELSE IF pat[i] = "(" THEN [ok |-> FALSE, toks |-> <<>>]  \* missing ), unterminated subpattern
    ELSE IF pat[i] = "\\"
    THEN IF i = Len(pat) \/ pat[i + 1] \in ReBadEscapeLetters
         THEN [ok |-> FALSE, toks |-> <<>>]                   \* bad escape
         ELSE LET rest == ReCompileFrom(pat, i + 2)
              IN  [ok |-> rest.ok,
                   toks |-> <<[any |-> FALSE, ch |-> pat[i + 1]]>> \o rest.toks]
    ELSE LET rest == ReCompileFrom(pat, i + 1)
         IN  [ok |-> rest.ok,
              toks |-> <<[any |-> (pat[i] = "."), ch |-> pat[i]]>> \o rest.toks]

ReCompile(pat) == ReCompileFrom(pat, 1)

TokMatches(tok, c) == IF tok.any THEN c # "\n" ELSE tok.ch = c

\* regex.search(text) is not None
ReSearch(toks, text) ==
    \E i \in 0..(Len(text) - Len(toks)) :
        \A k \in 1..Len(toks) : TokMatches(toks[k], text[i + k])

(***************************************************************************)
(* Configuration (module level of appF.py) and the strings the handlers    *)
(* build their answers from                                                *)
(***************************************************************************)

\* "https://arya-geetha-nlp.s3.us-east-1.amazonaws.com/"
S3_BASE_URL ==
    <<"h","t","t","p","s",":","/","/","a","r","y","a","-","g","e","e","t",
      "h","a","-","n","l","p",".","s","3",".","u","s","-","e","a","s","t",
      "-","1",".","a","m","a","z","o","n","a","w","s",".","c","o","m","/">>

\* the "Mod" of f"Mod{...}"
ModText ==
    <<"M","o","d">>

\* ".mp4"
Mp4Text ==
    <<".","m","p","4">>

\* "..."
Ellipsis ==
    <<".",".",".">>

\* the "Module " of f"Module {...}"
ModuleLabelText ==
    <<"M","o","d","u","l","e"," ">>

\* "_transcript.txt"
TranscriptSuffix ==
    <<"_","t","r","a","n","s","c","r","i","p","t",".","t","x","t">>

\* The length the transcript preview is cut to.
PREVIEW_LEN == 200

\* The columns the handlers read, and the third column of the fallback frame.
Columns == {"video", "transcription", "key_phrases"}

(***************************************************************************)
(* The rows, queries and ids the model draws its inputs from               *)
(***************************************************************************)

\* "Mod01_WhatIsML.mp4"
VidWhatIsML ==
    <<"M","o","d","0","1","_","W","h","a","t","I","s","M","L",".","m","p",
      "4">>

\* "Mod01_Trees.mp4"
VidTrees ==
    <<"M","o","d","0","1","_","T","r","e","e","s",".","m","p","4">>

\* "Mod01_Regression.mp4"
VidRegression ==
    <<"M","o","d","0","1","_","R","e","g","r","e","s","s","i","o","n",".",
      "m","p","4">>

\* "Mod10 Intro Mod10.mp4 v2.mp4"
VidIntro ==
    <<"M","o","d","1","0"," ","I","n","t","r","o"," ","M","o","d","1","0",
      ".","m","p","4"," ","v","2",".","m","p","4">>

\* "ModXY_Extra.mp4"
VidExtra ==
    <<"M","o","d","X","Y","_","E","x","t","r","a",".","m","p","4">>

\* "UnknownVideo.mp4"
VidUnknown ==
    <<"U","n","k","n","o","w","n","V","i","d","e","o",".","m","p","4">>

\* "Supervised learning basics"
KpSupervised ==
    <<"S","u","p","e","r","v","i","s","e","d"," ","l","e","a","r","n","i",
      "n","g"," ","b","a","s","i","c","s">>

\* "Deep learning (v2.0)"
KpDeep ==
    <<"D","e","e","p"," ","l","e","a","r","n","i","n","g"," ","(","v","2",
      ".","0",")">>

\* A text of n characters whose i-th character is the i-th of seq, cyclically.
Cyclic(seq, n) == [i \in 1..n |-> seq[((i - 1) % Len(seq)) + 1]]

\* A key_phrases text of exactly PREVIEW_LEN characters, and one a character longer.
KpLetters200 == Cyclic(LowerLetters, PREVIEW_LEN)

KpDigits201 == Cyclic(Digits, PREVIEW_LEN + 1)

Text(s) == [na |-> FALSE, s |-> s]

\* An empty CSV cell, as pandas reads it.
NaN == [na |-> TRUE, s |-> <<>>]

\* The rows a backing file is made of.  The transcription cell is left out:
\* no handler reads it.
RowPool ==
    { [video |-> Text(VidWhatIsML),   key_phrases |-> Text(KpSupervised)],
      [video |-> Text(VidTrees),      key_phrases |-> Text(KpLetters200)],
      [video |-> Text(VidRegression), key_phrases |-> NaN],
      [video |-> Text(VidIntro),      key_phrases |-> Text(KpDigits201)],
      [video |-> Text(VidExtra),      key_phrases |-> Text(KpDeep)] }

\* ""
QEmpty ==
    <<>>

\* " "
QSpace ==
    <<" ">>

\* "   "
QSpaces ==
    <<" "," "," ">>

\* "MOD01"
QMod01 ==
    <<"M","O","D","0","1">>

\* "supervised"
QSupervised ==
    <<"s","u","p","e","r","v","i","s","e","d">>

\* "Learning"
QLearning ==
    <<"L","e","a","r","n","i","n","g">>

\* "Mod.1"
QModDot1 ==
    <<"M","o","d",".","1">>

\* "."
QDot ==
    <<".">>

\* "("
QParen ==
    <<"(">>

\* "(v2"
QParenV2 ==
    <<"(","v","2">>

\* "\(v2"
QEscParenV2 ==
    <<"\\","(","v","2">>

\* "\"
QBackslash ==
    <<"\\">>

\* "\m"
QEscM ==
    <<"\\","m">>

\* "quantum"
QQuantum ==
    <<"q","u","a","n","t","u","m">>

\* The values of the q parameter; a request may also carry none.
QueryPool ==
    { QEmpty, QSpace, QSpaces, QMod01, QSupervised,
      QLearning, QModDot1, QDot, QParen, QParenV2,
      QEscParenV2, QBackslash, QEscM, QQuantum }

\* The ids asked of the download endpoint: the stored names, one that differs
\* from a stored name in letter case only, and one that is not stored.
IdPool ==
    { VidWhatIsML, VidTrees, VidRegression, VidIntro, VidExtra,
      PyLower(VidWhatIsML), VidUnknown }

(***************************************************************************)
(* The backing file and load_data                                          *)
(***************************************************************************)

\* The bounds of the model.
MaxRows == 2

MaxModuleNumber == 100

MaxTmpFiles == 1

MaxChangedRows == 1

MaxConcTmpFiles == 2

\* The header of a parsable file: all three columns, or one of them absent.
ColumnSets == {Columns} \cup {Columns \ {c} : c \in Columns}

\* A row as read by pandas: a cell for each column the file has.
RestrictRow(r, cols) == [c \in (cols \cap {"video", "key_phrases"}) |-> r[c]]

\* Up to MaxRows rows of the pool, in any order, each video at most once
\* (video is the unique identifier of a record).
RowSeqs ==
    UNION { { rs \in [1..n -> RowPool] : \A i, j \in 1..n : i # j => rs[i] # rs[j] }
            : n \in 0..MaxRows }

\* DATA_FILE does not exist: pd.read_csv raises FileNotFoundError.
MissingFile == [exists |-> FALSE, parses |-> FALSE, cols |-> {}, rows |-> <<>>]

\* DATA_FILE is empty or has a row with too many fields: pd.read_csv raises
\* EmptyDataError or ParserError.
UnparsableFile == [exists |-> TRUE, parses |-> FALSE, cols |-> {}, rows |-> <<>>]

Files ==
    {MissingFile, UnparsableFile} \cup
    { [exists |-> TRUE, parses |-> TRUE, cols |-> cs,
       rows |-> [i \in 1..Len(rs) |-> RestrictRow(rs[i], cs)]]
      : cs \in ColumnSets, rs \in RowSeqs }

\* pd.DataFrame(columns=['video', 'transcription', 'key_phrases'])
EmptyFrame == [cols |-> Columns, rows |-> <<>>]

\* load_data(): any exception of read_csv, and the KeyError of the
\* df['video'] it prints, is answered with the empty frame.  No other column
\* is touched, so a file without transcription or key_phrases loads as it is.
load_data(f) ==
    IF ~f.exists \/ ~f.parses THEN EmptyFrame
    ELSE IF "video" \notin f.cols THEN EmptyFrame
    ELSE [cols |-> f.cols, rows |-> f.rows]

\* Series.str: a column read from cells that are all empty has dtype float64,
\* and .str raises AttributeError on it; a column of no rows has dtype object.
StrAccessorOK(df, c) == df.rows = <<>> \/ \E i \in 1..Len(df.rows) : ~df.rows[i][c].na

(***************************************************************************)
(* Responses                                                               *)
(***************************************************************************)

NoResponse ==
    [status |-> 0, kind |-> "none", videos |-> <<>>, error |-> "",
     name |-> <<>>, content |-> <<>>]

\* jsonify({'videos': videos})
JsonVideos(vs) == [NoResponse EXCEPT !.status = 200, !.kind = "videos", !.videos = vs]

\* jsonify({'error': msg}), status
JsonError(st, msg) == [NoResponse EXCEPT !.status = st, !.kind = "error", !.error = msg]

\* send_file(..., as_attachment=True, download_name=name)
Attachment(nm, text) ==
    [NoResponse EXCEPT !.status = 200, !.kind = "attachment", !.name = nm, !.content = text]

\* An exception that leaves the view function: Flask answers 500 with its own
\* page, not with the JSON error object.
Unhandled(exc) == [NoResponse EXCEPT !.status = 500, !.kind = "unhandled", !.error = exc]

\* render_template('index.html', port=PORT)
HtmlPage == [NoResponse EXCEPT !.status = 200, !.kind = "html"]

(***************************************************************************)
(* The module listing: get_module_videos and get_videos                    *)
(***************************************************************************)

\* f"Mod{module_number:02d}"
ModulePrefix(n) == ModText \o ZeroPad2(n)

\* A variant that compares with the unpadded f"Mod{module_number}" by startswith.
get_module_videos_unpadded(df, n) ==
    IF ~StrAccessorOK(df, "video") THEN <<>>
    ELSE SelectSeq(df.rows,
                   LAMBDA row : ~row["video"].na
                                /\ PySlice(row["video"].s, 0, Len(ModText \o NatToStr(n)))
                                      = ModText \o NatToStr(n))

\* A variant that cuts the prefix to five characters as well
\* (df['video'].str[:5] == module_prefix[:5]).
get_module_videos_cut(df, n) ==
    IF ~StrAccessorOK(df, "video") THEN <<>>
    ELSE SelectSeq(df.rows,
                   LAMBDA row : ~row["video"].na
                                /\ PySlice(row["video"].s, 0, 5) = PySlice(ModulePrefix(n), 0, 5))

\* df[df['video'].str[:5] == module_prefix]; an exception gives pd.DataFrame().
get_module_videos(df, n) ==
    IF ~StrAccessorOK(df, "video") THEN <<>>
    ELSE SelectSeq(df.rows,
                   LAMBDA row : ~row["video"].na
                                /\ PySlice(row["video"].s, 0, 5) = ModulePrefix(n))

\* A variant that cuts at len(...) >= 200.
PreviewFrom200(kp) ==
    IF Len(kp) >= PREVIEW_LEN THEN PySlice(kp, 0, PREVIEW_LEN) \o Ellipsis ELSE kp

\* row['key_phrases'][:200] + '...' if len(row['key_phrases']) > 200 else row['key_phrases']
Preview(kp) ==
    IF Len(kp) > PREVIEW_LEN THEN PySlice(kp, 0, PREVIEW_LEN) \o Ellipsis ELSE kp

\* A variant that removes the prefix at the start and ".mp4" at the end only
\* (removeprefix and removesuffix in place of replace).
TitleEdgesOnly(video_name, module_text) ==
    LET prefix == ModText \o module_text
        a == IF OccursAt(video_name, prefix, 1)
             THEN SubSeq(video_name, Len(prefix) + 1, Len(video_name)) ELSE video_name
        b == IF Len(a) >= Len(Mp4Text) /\ OccursAt(a, Mp4Text, Len(a) - Len(Mp4Text) + 1)
             THEN SubSeq(a, 1, Len(a) - Len(Mp4Text)) ELSE a
    IN  PyStrip(b)

\* video_name.replace(f"Mod{...}", "").replace(".mp4", "").strip()
Title(video_name, module_text) ==
    PyStrip(PyRemoveAll(PyRemoveAll(video_name, ModText \o module_text), Mp4Text))

\* The exception the listing's loop body raises on a row, "none" if it raises
\* none: KeyError without the column, TypeError for len() of a NaN.
ListRowError(row) ==
    IF "key_phrases" \notin DOMAIN row THEN "KeyError"
    ELSE IF row["key_phrases"].na THEN "TypeError"
    ELSE "none"

ListEntry(row, n) ==
    [id |-> row["video"].s,
     title |-> Title(row["video"].s, ZeroPad2(n)),
     transcript |-> Preview(row["key_phrases"].s),
     url |-> S3_BASE_URL \o row["video"].s]

\* The position of the first exception in the per-row outcomes of a loop, 0
\* if no row raises: the loop stops at the first row that raises.
FirstFailing(errs) ==
    LET bad == {i \in 1..Len(errs) : errs[i] # "none"}
    IN  IF bad = {} THEN 0 ELSE CHOOSE i \in bad : \A j \in bad : i <= j

\* The body of get_videos after load_data.
GetVideosResponse(df, n) ==
    LET module_videos == get_module_videos(df, n)
        errs == [i \in 1..Len(module_videos) |-> ListRowError(module_videos[i])]
        k == FirstFailing(errs)
    IN  IF k # 0 THEN JsonError(500, errs[k])
        ELSE JsonVideos([i \in 1..Len(module_videos) |-> ListEntry(module_videos[i], n)])

(***************************************************************************)
(* Search: search_videos                                                   *)
(***************************************************************************)

\* Series.str.lower().str.contains(query, na=False) on one cell.
CellContains(cell, toks) == ~cell.na /\ ReSearch(toks, PyLower(cell.s))

\* The exception that building the mask raises, "none" if it raises none.  The
\* video operand of | is evaluated before the key_phrases operand, and each
\* compiles the query before it looks at a cell.
MaskError(df, query) ==
    IF ~StrAccessorOK(df, "video") THEN "AttributeError"
    ELSE IF ~ReCompile(query).ok THEN "re.error"
    ELSE IF "key_phrases" \notin df.cols THEN "KeyError"
    ELSE IF ~StrAccessorOK(df, "key_phrases") THEN "AttributeError"
    ELSE "none"

\* df[mask]
matching_videos(df, query) ==
    LET toks == ReCompile(query).toks
    IN  SelectSeq(df.rows,
                  LAMBDA row : CellContains(row["video"], toks)
                               \/ CellContains(row["key_phrases"], toks))

\* video_name[3:5]
module_num(video_name) == PySlice(video_name, 3, 5)

\* The exception the search loop body raises on a row: TypeError for len() of
\* a NaN key_phrases, ValueError for int(module_num) of a non-number.
SearchRowError(row) ==
    IF row["key_phrases"].na THEN "TypeError"
    ELSE IF ~PyInt(module_num(row["video"].s)).ok THEN "ValueError"
    ELSE "none"

SearchEntry(row) ==
    [id |-> row["video"].s,
     title |-> Title(row["video"].s, module_num(row["video"].s)),
     transcript |-> Preview(row["key_phrases"].s),
     url |-> S3_BASE_URL \o row["video"].s,
     module |-> ModuleLabelText \o IntToStr(PyInt(module_num(row["video"].s)).val)]

\* The body of search_videos after load_data, for the lower-cased query.
SearchResponse(df, query) ==
    IF MaskError(df, query) # "none" THEN JsonError(500, MaskError(df, query))
    ELSE LET found == matching_videos(df, query)
             errs == [i \in 1..Len(found) |-> SearchRowError(found[i])]
             k == FirstFailing(errs)
         IN  IF k # 0 THEN JsonError(500, errs[k])
             ELSE JsonVideos([i \in 1..Len(found) |-> SearchEntry(found[i])])

(***************************************************************************)
(* Download: download_transcript                                           *)
(***************************************************************************)

\* A variant that compares without regard to letter case.
LookupVideoAnyCase(df, video_id) ==
    SelectSeq(df.rows,
              LAMBDA row : ~row["video"].na /\ PyLower(row["video"].s) = PyLower(video_id))

\* df[df['video'] == video_id]
LookupVideo(df, video_id) ==
    SelectSeq(df.rows, LAMBDA row : ~row["video"].na /\ row["video"].s = video_id)

\* f"{video_id}_transcript.txt"
DownloadName(video_id) == video_id \o TranscriptSuffix

\* A variant that opens one fixed path: the newest file of the directory is
\* emptied and used again, and a new file is made only in an empty directory.
CreateTempFixed(dir) ==
    IF dir = <<>> THEN <<<<>>>> ELSE [dir EXCEPT ![Len(dir)] = <<>>]

\* tempfile.NamedTemporaryFile(delete=False, suffix='.txt'): a new, empty file
\* under a name no existing file has.  The temporary directory is the
\* sequence of the files' contents, and a file's name is its position.
CreateTemp(dir) == Append(dir, <<>>)

\* A variant that writes the preview of the text.
WriteFilePreview(dir, nm, text) == [dir EXCEPT ![nm] = Preview(text)]

\* with open(name, 'w') as f: f.write(text)
WriteFile(dir, nm, text) == [dir EXCEPT ![nm] = text]

\* send_file(name, ...) reads the file back.
ReadFile(dir, nm) == dir[nm]

\* The temporary directory after download_transcript(video_id).
DownloadTmp(df, video_id, dir) ==
    LET video == LookupVideo(df, video_id)
    IN  IF video = <<>> THEN dir
        ELSE IF "key_phrases" \notin DOMAIN video[1] THEN dir
        ELSE IF video[1]["key_phrases"].na THEN CreateTemp(dir)
        ELSE WriteFile(CreateTemp(dir), Len(dir) + 1, video[1]["key_phrases"].s)

\* The answer of download_transcript(video_id).  The function has no
\* try/except: the KeyError of a frame without key_phrases and the TypeError
\* of f.write(NaN) leave it.
DownloadResponse(df, video_id, dir) ==
    LET video == LookupVideo(df, video_id)
    IN  IF video = <<>> THEN JsonError(404, "Video not found")
        ELSE IF "key_phrases" \notin DOMAIN video[1] THEN Unhandled("KeyError")
        ELSE IF video[1]["key_phrases"].na THEN Unhandled("TypeError")
        ELSE Attachment(DownloadName(video_id),
                        ReadFile(DownloadTmp(df, video_id, dir), Len(dir) + 1))

(***************************************************************************)
(* The server: one request is handled to completion at a time              *)
(***************************************************************************)

VARIABLES
    file,     \* the content of DATA_FILE
    req,      \* the request being answered, NoRequest between requests
    df,       \* the frame the request's load_data() returned
    loaded,   \* whether the request called load_data()
    resp,     \* the response of the request
    tmp       \* the temporary directory

vars == <<file, req, df, loaded, resp, tmp>>

NoRequest == [op |-> "none", n |-> 0, hasq |-> FALSE, q |-> <<>>, id |-> <<>>]

Init ==
    /\ file \in Files
    /\ \A q \in QueryPool : ReSupported(PyLower(q))
    /\ req = NoRequest
    /\ df = EmptyFrame
    /\ loaded = FALSE
    /\ resp = NoResponse
    /\ tmp = <<>>

\* GET /  (index)
Index ==
    /\ req.op = "none"
    /\ req' = [NoRequest EXCEPT !.op = "index"]
    /\ df' = load_data(file)
    /\ loaded' = TRUE
    /\ resp' = HtmlPage
    /\ UNCHANGED <<file, tmp>>

\* A variant that answers from the frame already in memory and reads no file.
GetVideosStale(n) ==
    /\ req.op = "none"
    /\ req' = [NoRequest EXCEPT !.op = "videos", !.n = n]
    /\ df' = df
    /\ loaded' = TRUE
    /\ resp' = GetVideosResponse(df', n)
    /\ UNCHANGED <<file, tmp>>

\* GET /api/videos/<int:module_number>  (get_videos)
GetVideos(n) ==
    /\ req.op = "none"
    /\ req' = [NoRequest EXCEPT !.op = "videos", !.n = n]
    /\ df' = load_data(file)
    /\ loaded' = TRUE
    /\ resp' = GetVideosResponse(df', n)
    /\ UNCHANGED <<file, tmp>>

\* GET /api/search with q given (hasq) or absent  (search_videos)
SearchVideos(hasq, q) ==
    LET query == PyLower(IF hasq THEN q ELSE <<>>)   \* request.args.get('q', '').lower()
    IN  /\ req.op = "none"
        /\ req' = [NoRequest EXCEPT !.op = "search", !.hasq = hasq, !.q = q]
        /\ IF query = <<>>
           THEN /\ resp' = JsonVideos(<<>>)
                /\ loaded' = FALSE
                /\ df' = EmptyFrame
           ELSE /\ df' = load_data(file)
                /\ loaded' = TRUE
                /\ resp' = SearchResponse(df', query)
        /\ UNCHANGED <<file, tmp>>

\* GET /api/download/<video_id>  (download_transcript)
DownloadTranscript(video_id) ==
    /\ req.op = "none"
    /\ Len(tmp) < MaxTmpFiles
    /\ req' = [NoRequest EXCEPT !.op = "download", !.id = video_id]
    /\ df' = load_data(file)
    /\ loaded' = TRUE
    /\ resp' = DownloadResponse(df', video_id, tmp)
    /\ tmp' = DownloadTmp(df', video_id, tmp)
    /\ UNCHANGED file

\* The response is sent and the server waits for the next request.
Return ==
    /\ req.op # "none"
    /\ req' = NoRequest
    /\ df' = EmptyFrame
    /\ loaded' = FALSE
    /\ resp' = NoResponse
    /\ UNCHANGED <<file, tmp>>

Next ==
    \/ Index
    \/ \E n \in 0..MaxModuleNumber : GetVideos(n)
    \/ \E q \in QueryPool : SearchVideos(TRUE, q)
    \/ SearchVideos(FALSE, <<>>)
    \/ \E video_id \in IdPool : DownloadTranscript(video_id)
    \/ Return

Spec == Init /\ [][Next]_vars

(***************************************************************************)
(* The server while DATA_FILE is rewritten between requests                *)
(***************************************************************************)

\* The contents DATA_FILE takes in turn: the files of up to MaxChangedRows rows.
ChangedFiles == { f \in Files : Len(f.rows) <= MaxChangedRows }

InitFile ==
    /\ Init
    /\ file \in ChangedFiles

\* DATA_FILE is replaced from outside the program.  Each handler reads the
\* file once, in pd.read_csv, so a replacement falls before or after a
\* request's read: it is taken between two requests.
ChangeFile ==
    /\ req.op = "none"
    /\ \E f \in ChangedFiles : f # file /\ file' = f
    /\ UNCHANGED <<req, df, loaded, resp, tmp>>

NextFile ==
    \/ Next
    \/ ChangeFile

SpecFile == InitFile /\ [][NextFile]_vars

(***************************************************************************)
(* Concurrent downloads.  app.run serves each request in a thread of its   *)
(* own, so the statements of download_transcript of several requests       *)
(* interleave.  Here req, df, loaded and resp hold one value for each      *)
(* thread; file and tmp are shared.                                        *)
(***************************************************************************)

Threads == {1, 2}

\* A thread that serves no request.  pc is the position in
\* download_transcript, temp_file the name NamedTemporaryFile returned to it
\* (0: none yet).
ThreadIdle == [id |-> <<>>, pc |-> "idle", temp_file |-> 0]

\* The datasets of the concurrent runs: all three columns, MaxRows rows.
ConcFiles == { f \in Files : f.cols = Columns /\ Len(f.rows) = MaxRows }

InitConc ==
    /\ file \in ConcFiles
    /\ req = [t \in Threads |-> ThreadIdle]
    /\ df = [t \in Threads |-> EmptyFrame]
    /\ loaded = [t \in Threads |-> FALSE]
    /\ resp = [t \in Threads |-> NoResponse]
    /\ tmp = <<>>

\* df = load_data(); video = df[df['video'] == video_id]; the 404 when it is
\* empty; transcript = video.iloc[0]['key_phrases'].
DlLookup(t, video_id) ==
    /\ req[t].pc = "idle"
    /\ df' = [df EXCEPT ![t] = load_data(file)]
    /\ loaded' = [loaded EXCEPT ![t] = TRUE]
    /\ LET video == LookupVideo(df'[t], video_id)
       IN  IF video = <<>>
           THEN /\ req' = [req EXCEPT ![t] = [ThreadIdle EXCEPT !.id = video_id, !.pc = "done"]]
                /\ resp' = [resp EXCEPT ![t] = JsonError(404, "Video not found")]
           ELSE IF "key_phrases" \notin DOMAIN video[1]
           THEN /\ req' = [req EXCEPT ![t] = [ThreadIdle EXCEPT !.id = video_id, !.pc = "done"]]
                /\ resp' = [resp EXCEPT ![t] = Unhandled("KeyError")]
           ELSE /\ req' = [req EXCEPT ![t] = [ThreadIdle EXCEPT !.id = video_id, !.pc = "found"]]
                /\ UNCHANGED resp
    /\ UNCHANGED <<file, tmp>>

\* temp_file = tempfile.NamedTemporaryFile(delete=False, suffix='.txt')
DlCreateTemp(t) ==
    /\ req[t].pc = "found"
    /\ Len(tmp) < MaxConcTmpFiles
    /\ tmp' = CreateTemp(tmp)
    /\ req' = [req EXCEPT ![t].pc = "created", ![t].temp_file = Len(tmp')]
    /\ UNCHANGED <<file, df, loaded, resp>>

\* with open(temp_file.name, 'w') as f: f.write(transcript).  open empties the
\* file; write raises TypeError for a NaN, which leaves the handler.
DlWrite(t) ==
    /\ req[t].pc = "created"
    /\ LET transcript == LookupVideo(df[t], req[t].id)[1]["key_phrases"]
       IN  IF transcript.na
           THEN /\ tmp' = WriteFile(tmp, req[t].temp_file, <<>>)
                /\ req' = [req EXCEPT ![t].pc = "done"]
                /\ resp' = [resp EXCEPT ![t] = Unhandled("TypeError")]
           ELSE /\ tmp' = WriteFile(tmp, req[t].temp_file, transcript.s)
                /\ req' = [req EXCEPT ![t].pc = "written"]
                /\ UNCHANGED resp
    /\ UNCHANGED <<file, df, loaded>>

\* return send_file(temp_file.name, as_attachment=True, download_name=...)
DlSend(t) ==
    /\ req[t].pc = "written"
    /\ resp' = [resp EXCEPT ![t] = Attachment(DownloadName(req[t].id),
                                              ReadFile(tmp, req[t].temp_file))]
    /\ req' = [req EXCEPT ![t].pc = "done"]
    /\ UNCHANGED <<file, df, loaded, tmp>>

\* The response is sent and the thread takes the next request.
DlReturn(t) ==
    /\ req[t].pc = "done"
    /\ req' = [req EXCEPT ![t] = ThreadIdle]
    /\ df' = [df EXCEPT ![t] = EmptyFrame]
    /\ loaded' = [loaded EXCEPT ![t] = FALSE]
    /\ resp' = [resp EXCEPT ![t] = NoResponse]
    /\ UNCHANGED <<file, tmp>>

NextConc ==
    \/ \E t \in Threads, video_id \in IdPool : DlLookup(t, video_id)
    \/ \E t \in Threads : DlCreateTemp(t)
    \/ \E t \in Threads : DlWrite(t)
    \/ \E t \in Threads : DlSend(t)
    \/ \E t \in Threads : DlReturn(t)

SpecConc == InitConc /\ [][NextConc]_vars

(***************************************************************************)
(* What the claims are stated with.  These are written from the claims'    *)
(* words, not with the operators that model the handlers.                  *)
(***************************************************************************)

\* q occurs in s as a literal substring.
Contains(s, q) == \E i \in 1..(Len(s) - Len(q) + 1) : SubSeq(s, i, i + Len(q) - 1) = q

\* The first five characters of v are "Mod" and the two decimal digits of n.
HasPrefixOf(v, n) ==
    /\ Len(v) >= 5
    /\ <<v[1], v[2], v[3]>> = <<"M", "o", "d">>
    /\ v[4] = Digits[(n \div 10) + 1]
    /\ v[5] = Digits[(n % 10) + 1]

\* The record has a key_phrases text: the column is there and the cell is not empty.
HasText(row) == "key_phrases" \in DOMAIN row /\ ~row["key_phrases"].na

\* The characters at positions 3-4 of the video are two decimal digits.
WellFormedModule(v) == Len(v) >= 5 /\ InSeq(Digits, v[4]) /\ InSeq(Digits, v[5])

Ids(entries) == [i \in 1..Len(entries) |-> entries[i].id]

VideosOf(rows) == [i \in 1..Len(rows) |-> rows[i]["video"].s]

\* The records of module n, in row order.
RecordsOfModule(rows, n) == SelectSeq(rows, LAMBDA row : HasPrefixOf(row["video"].s, n))

\* The record of the loaded frame whose video is v.
RecordOf(v) == df.rows[CHOOSE i \in 1..Len(df.rows) : df.rows[i]["video"].s = v]

Stored(v) == \E i \in 1..Len(df.rows) : df.rows[i]["video"].s = v

ListingDone == req.op = "videos"

SearchDone == req.op = "search"

DownloadDone == req.op = "download"

(***************************************************************************)
(* C1                                                                      *)
(***************************************************************************)

\* C1, as stated: for every dataset and every n in 0..99 the module listing
\* answers with one entry for each record whose first five characters are
\* "Mod" + n padded to two digits, none for another record, in row order.
C1_Original ==
    (ListingDone /\ req.n <= 99) =>
        /\ resp.kind = "videos"
        /\ Ids(resp.videos) = VideosOf(RecordsOfModule(df.rows, req.n))

\* C1, amended: the listing is as stated when every record of module n has a
\* key_phrases text; when one has none (an empty cell, or a file without the
\* column) the request is answered with the error object and status 500.
C1_Listing ==
    (ListingDone /\ req.n <= 99) =>
        IF \A i \in 1..Len(RecordsOfModule(df.rows, req.n)) :
               HasText(RecordsOfModule(df.rows, req.n)[i])
        THEN /\ resp.kind = "videos"
             /\ resp.status = 200
             /\ Ids(resp.videos) = VideosOf(RecordsOfModule(df.rows, req.n))
        ELSE /\ resp.kind = "error"
             /\ resp.status = 500

\* A listing that kept one of two records and left the other out.
C1_Witness ==
    /\ ListingDone
    /\ req.n <= 99
    /\ Len(df.rows) = 2
    /\ Len(resp.videos) = 1

(***************************************************************************)
(* C2                                                                      *)
(***************************************************************************)

\* C2: a search whose query is missing, empty or only whitespace answers
\* {"videos": []}, whatever the dataset holds.  (The claim adds that the
\* dataset is not loaded; a request that breaks the answer has loaded it.)
\* Stated for the datasets whose records all have a key_phrases text and a
\* two-digit module number.
C2_Original ==
    (/\ SearchDone
     /\ ~req.hasq \/ \A i \in 1..Len(req.q) : req.q[i] \in Whitespace
     /\ \A i \in 1..Len(df.rows) :
            HasText(df.rows[i]) /\ WellFormedModule(df.rows[i]["video"].s)) =>
        resp = JsonVideos(<<>>)

(***************************************************************************)
(* C3                                                                      *)
(***************************************************************************)

\* The lower case of q is a literal substring of the lower case of the
\* record's video or of its key_phrases.
LiteralMatch(row, q) ==
    \/ Contains(PyLower(row["video"].s), PyLower(q))
    \/ HasText(row) /\ Contains(PyLower(row["key_phrases"].s), PyLower(q))

\* C3: for a non-empty query q, search returns exactly the records that have
\* the lower case of q as a literal substring of video or key_phrases, each
\* once, in row order.  Stated here for the datasets whose records all have a
\* key_phrases text and a two-digit module number, where nothing but the
\* matching decides the answer.
C3_Original ==
    (/\ SearchDone
     /\ req.hasq
     /\ req.q # <<>>
     /\ \A i \in 1..Len(df.rows) :
            HasText(df.rows[i]) /\ WellFormedModule(df.rows[i]["video"].s)) =>
        /\ resp.kind = "videos"
        /\ Ids(resp.videos) =
              VideosOf(SelectSeq(df.rows, LAMBDA row : LiteralMatch(row, req.q)))

(***************************************************************************)
(* C4                                                                      *)
(***************************************************************************)

\* C4: in every entry of a listing or of a search, transcript is the record's
\* key_phrases unchanged when that has at most 200 characters, and otherwise
\* its first 200 characters followed by "...", 203 characters in all; no
\* transcript is longer than 203 characters.
C4_Preview ==
    (ListingDone \/ SearchDone) =>
        \A i \in 1..Len(resp.videos) :
            LET kp == RecordOf(resp.videos[i].id)["key_phrases"].s
                t == resp.videos[i].transcript
            IN  /\ Len(kp) <= 200 => t = kp
                /\ Len(kp) > 200 =>
                      /\ Len(t) = 203
                      /\ \A k \in 1..200 : t[k] = kp[k]
                      /\ <<t[201], t[202], t[203]>> = <<".", ".", ".">>
                /\ Len(t) <= 203

\* A search answer that holds a cut transcript of 203 characters and an
\* uncut one of exactly 200 characters.
C4_Witness ==
    /\ SearchDone
    /\ \E i \in 1..Len(resp.videos) : Len(resp.videos[i].transcript) = 203
    /\ \E i \in 1..Len(resp.videos) : Len(resp.videos[i].transcript) = 200

(***************************************************************************)
(* C5                                                                      *)
(***************************************************************************)

\* C5: download answers {"error": "Video not found"} with status 404 exactly
\* when no record's video equals the id character for character; an id that
\* differs from a stored video in letter case only is not found.
C5_NotFound ==
    DownloadDone =>
        ((resp.kind = "error" /\ resp.error = "Video not found" /\ resp.status = 404)
            <=> ~Stored(req.id))

\* The id is a stored video in another letter case, and the answer is 404.
C5_Witness ==
    /\ DownloadDone
    /\ ~Stored(req.id)
    /\ \E i \in 1..Len(df.rows) :
          /\ df.rows[i]["video"].s # req.id
          /\ PyLower(df.rows[i]["video"].s) = PyLower(req.id)
    /\ resp.status = 404

(***************************************************************************)
(* C6                                                                      *)
(***************************************************************************)

\* C6, as stated: for every id equal to some record's video, download
\* returns an attachment named {id}_transcript.txt whose content is that
\* record's key_phrases.
C6_Original ==
    (DownloadDone /\ Stored(req.id)) =>
        /\ resp.kind = "attachment"
        /\ HasText(RecordOf(req.id))
        /\ resp.content = RecordOf(req.id)["key_phrases"].s

\* C6, amended: for every id equal to the video of a record that has a
\* key_phrases text, download returns status 200 and an attachment named
\* {id}_transcript.txt whose content is that text, character for character,
\* and the new temporary file holds the same text; for a record without a
\* key_phrases text no attachment is returned and the status is 500.
C6_RoundTrip ==
    (DownloadDone /\ Stored(req.id)) =>
        IF HasText(RecordOf(req.id))
        THEN /\ resp.kind = "attachment"
             /\ resp.status = 200
             /\ resp.name = req.id \o <<"_","t","r","a","n","s","c","r","i","p","t",".","t","x","t">>
             /\ resp.content = RecordOf(req.id)["key_phrases"].s
             /\ tmp[Len(tmp)] = RecordOf(req.id)["key_phrases"].s
        ELSE /\ resp.kind # "attachment"
             /\ resp.status = 500

\* A download of a text longer than the preview.
C6_Witness ==
    /\ DownloadDone
    /\ resp.kind = "attachment"
    /\ Len(resp.content) > 200

(***************************************************************************)
(* C7                                                                      *)
(***************************************************************************)

\* The backing file cannot be read as the three expected columns.
LoadFails == ~file.exists \/ ~file.parses \/ file.cols # Columns

\* C7: when reading the backing file fails (file missing, rows malformed, or
\* one of the columns video, transcription, key_phrases absent), load_data
\* returns an empty dataset and the endpoints answer as for an empty
\* dataset: the listing and the search with an empty videos list, download
\* with not-found.  Stated for the queries that are valid patterns.
C7_Original ==
    ((ListingDone \/ SearchDone \/ DownloadDone) /\ loaded /\ LoadFails) =>
        /\ df.rows = <<>>
        /\ ListingDone => resp = JsonVideos(<<>>)
        /\ (SearchDone /\ ReCompile(PyLower(req.q)).ok) => resp = JsonVideos(<<>>)
        /\ DownloadDone => (resp.kind = "error" /\ resp.status = 404)

(***************************************************************************)
(* C8                                                                      *)
(***************************************************************************)

\* C8: on the listing, download and search endpoints an unexpected failure
\* is answered with {"error": <message>} and a server-error status; no
\* exception leaves the handler.
C8_Original ==
    (ListingDone \/ SearchDone \/ DownloadDone) =>
        /\ resp.kind # "unhandled"
        /\ resp.status = 500 => resp.kind = "error"

(***************************************************************************)
(* C9                                                                      *)
(***************************************************************************)

\* "WhatIsML"
TitleAsClaimed ==
    <<"W","h","a","t","I","s","M","L">>

\* "_WhatIsML"
TitleWhatIsML ==
    <<"_","W","h","a","t","I","s","M","L">>

\* "Intro  v2"
TitleIntro ==
    <<"I","n","t","r","o"," "," ","v","2">>

\* The listing of a module answered with the entry of video v alone.
OnlyEntry(v) ==
    /\ resp.kind = "videos"
    /\ Len(resp.videos) = 1
    /\ resp.videos[1].id = v

\* The dataset of the example: the record Mod01_WhatIsML.mp4 with the
\* key_phrases "Supervised learning basics", listed for module 1.
ExampleListed ==
    /\ ListingDone
    /\ req.n = 1
    /\ Len(df.rows) = 1
    /\ df.rows[1]["video"].s = VidWhatIsML
    /\ HasText(df.rows[1])
    /\ df.rows[1]["key_phrases"].s = KpSupervised

\* C9, as stated: the listing of module 1 has exactly one entry, whose title
\* is "WhatIsML" and whose url is the base URL followed by the video.
C9_Original ==
    ExampleListed =>
        /\ OnlyEntry(VidWhatIsML)
        /\ resp.videos[1].title = TitleAsClaimed
        /\ resp.videos[1].url = S3_BASE_URL \o VidWhatIsML

\* C9, amended: the listing of module 1 has exactly one entry, whose title
\* is "_WhatIsML" (the underscore after the prefix stays) and whose url is
\* the base URL followed by the video; in general every occurrence of the
\* module prefix and then every occurrence of ".mp4" is removed, wherever it
\* stands, before the surrounding whitespace is trimmed:
\* "Mod10 Intro Mod10.mp4 v2.mp4" is listed under module 10 as "Intro  v2".
C9_Title ==
    /\ ExampleListed =>
          /\ OnlyEntry(VidWhatIsML)
          /\ resp.videos[1].title = TitleWhatIsML
          /\ resp.videos[1].url = S3_BASE_URL \o VidWhatIsML
    /\ ListingDone =>
          \A i \in 1..Len(resp.videos) :
              /\ resp.videos[i].id = VidWhatIsML => resp.videos[i].title = TitleWhatIsML
              /\ resp.videos[i].id = VidIntro => resp.videos[i].title = TitleIntro
              /\ resp.videos[i].url = S3_BASE_URL \o resp.videos[i].id

\* The example dataset listed for module 1, with its one entry.
C9_Witness ==
    /\ ExampleListed
    /\ OnlyEntry(VidWhatIsML)
    /\ resp.videos[1].title = TitleWhatIsML

(***************************************************************************)
(* C10                                                                     *)
(***************************************************************************)

\* C10: when a record matches a non-empty query and characters 3-4 of its
\* video are not a decimal number, search still answers with a list, which
\* holds the other matching records, and not with an error for the request.
\* Stated for the queries that are valid patterns and the datasets whose
\* records all have a key_phrases text.
C10_Original ==
    (/\ SearchDone
     /\ req.hasq
     /\ req.q # <<>>
     /\ ReCompile(PyLower(req.q)).ok
     /\ \A i \in 1..Len(df.rows) : HasText(df.rows[i])
     /\ \E i \in 1..Len(df.rows) :
            /\ LiteralMatch(df.rows[i], req.q)
            /\ ~WellFormedModule(df.rows[i]["video"].s)) =>
        /\ resp.kind = "videos"
        /\ \A i \in 1..Len(df.rows) :
              (LiteralMatch(df.rows[i], req.q) /\ WellFormedModule(df.rows[i]["video"].s))
                 => \E k \in 1..Len(resp.videos) : resp.videos[k].id = df.rows[i]["video"].s

(***************************************************************************)
(* C11                                                                     *)
(***************************************************************************)

\* "Mod01"
PrefixModule1 ==
    <<"M","o","d","0","1">>

\* "Mod10"
PrefixModule10 ==
    <<"M","o","d","1","0">>

StartsWith(v, prefix) == Len(v) >= Len(prefix) /\ SubSeq(v, 1, Len(prefix)) = prefix

\* No record of the loaded frame is a record of module n: n is 100 or more,
\* or "Mod" and the two digits of n are the first five characters of none.
NoRecordOfModule(n) ==
    n >= 100 \/ \A i \in 1..Len(df.rows) : ~HasPrefixOf(df.rows[i]["video"].s, n)

\* C11: the module listing for a module number n >= 100, and for an n whose
\* prefix "Mod" + n padded to two digits is the first five characters of no
\* record, answers the empty list with status 200, not an error; the listing
\* of module 1 holds no record of module 10, and that of module 10 none of
\* module 1.
C11_EmptyListing ==
    ListingDone =>
        /\ NoRecordOfModule(req.n) => resp = JsonVideos(<<>>)
        /\ req.n = 1 =>
              \A i \in 1..Len(resp.videos) : ~StartsWith(resp.videos[i].id, PrefixModule10)
        /\ req.n = 10 =>
              \A i \in 1..Len(resp.videos) : ~StartsWith(resp.videos[i].id, PrefixModule1)

\* Module 100 is listed from a dataset that holds a record of module 10, and
\* the list is empty.
C11_Witness ==
    /\ ListingDone
    /\ req.n >= 100
    /\ \E i \in 1..Len(df.rows) : StartsWith(df.rows[i]["video"].s, PrefixModule10)
    /\ resp = JsonVideos(<<>>)

(***************************************************************************)
(* C12                                                                     *)
(***************************************************************************)

\* What a read of the file f yields: its columns and rows, or nothing when
\* it cannot be read or names no video.
FileContent(f) ==
    IF f.exists /\ f.parses /\ "video" \in f.cols
    THEN [cols |-> f.cols, rows |-> f.rows]
    ELSE EmptyFrame

\* The answer the request r gets from the file f on a server that has
\* answered no request and written no temporary file before.
AnswerOf(f, r) ==
    CASE r.op = "videos" -> GetVideosResponse(FileContent(f), r.n)
      [] r.op = "search" -> SearchResponse(FileContent(f), PyLower(r.q))
      [] r.op = "download" -> DownloadResponse(FileContent(f), r.id, <<>>)

\* A module listing, a search with a non-empty query or a download is taken up.
ReadingRequest ==
    /\ req.op = "none"
    /\ req'.op \in {"videos", "search", "download"}
    /\ loaded'

\* C12: with the backing file changing between requests, each module listing,
\* non-empty search and download is answered from the file's content at that
\* request: the frame is the file as it is then and the answer is the one a
\* fresh server gives for that file, whatever was loaded or written before;
\* and no step of a request changes the backing file.
C12_Fresh ==
    [][ /\ ReadingRequest => (df' = FileContent(file) /\ resp' = AnswerOf(file, req'))
        /\ req' # req => file' = file ]_vars

\* A listing is answered with an entry from a file that holds no record with
\* the key_phrases an earlier download wrote out: the file was replaced in
\* between, and the listing shows the new content.
C12_Witness ==
    /\ ListingDone
    /\ resp.kind = "videos"
    /\ resp.videos # <<>>
    /\ tmp # <<>>
    /\ tmp[1] # <<>>
    /\ \A i \in 1..Len(df.rows) :
          HasText(df.rows[i]) /\ df.rows[i]["key_phrases"].s # tmp[1]

(***************************************************************************)
(* C13                                                                     *)
(***************************************************************************)

\* The thread t holds the name of a temporary file made for its request.
HoldsTemp(t) == req[t].temp_file # 0

\* The key_phrases text of the record of the backing file named v.
KeyPhrasesOf(v) ==
    file.rows[CHOOSE i \in 1..Len(file.rows) : file.rows[i]["video"].s = v]["key_phrases"].s

\* No two requests in progress hold the same temporary file, and every
\* attachment sent carries the key_phrases of the record that was asked for.
OwnFileAndContent ==
    /\ \A t, u \in Threads :
          (t # u /\ HoldsTemp(t) /\ HoldsTemp(u)) => req[t].temp_file # req[u].temp_file
    /\ \A t \in Threads :
          resp[t].kind = "attachment" =>
              /\ resp[t].content = KeyPhrasesOf(req[t].id)
              /\ resp[t].name = req[t].id \o TranscriptSuffix

\* A request that gets its temporary file adds exactly one file, under a
\* name that none had before; no other step adds one; no file goes away;
\* and a file's content changes only in the step in which the one request
\* that holds it writes it.
GrowsUntouched ==
    /\ \A t \in Threads :
          (~HoldsTemp(t) /\ req'[t].temp_file # 0) =>
              /\ Len(tmp') = Len(tmp) + 1
              /\ req'[t].temp_file = Len(tmp')
    /\ (\A t \in Threads : req'[t].temp_file = req[t].temp_file \/ req'[t].temp_file = 0)
          => Len(tmp') = Len(tmp)
    /\ Len(tmp') >= Len(tmp)
    /\ \A nm \in 1..Len(tmp) :
          tmp'[nm] # tmp[nm] =>
              \E t \in Threads : /\ req[t].temp_file = nm
                                 /\ req[t].pc = "created"
                                 /\ req'[t].pc # "created"

\* C13: in every interleaving of concurrent downloads, each successful
\* download makes one new temporary file, distinct from those of every other
\* request, earlier or concurrent; no request deletes or overwrites the file
\* of another, each response carries the key_phrases of the record it asked
\* for, and the set of temporary files only grows.
C13_Isolation ==
    [] OwnFileAndContent /\ [][GrowsUntouched]_vars

\* Two requests for different records are in progress at once, each has
\* written its own temporary file, and neither has been sent yet.
C13_Witness ==
    \E t, u \in Threads :
        /\ t # u
        /\ req[t].pc = "written"
        /\ req[u].pc = "written"
        /\ req[t].id # req[u].id
        /\ tmp[req[t].temp_file] = KeyPhrasesOf(req[t].id)
        /\ tmp[req[u].temp_file] = KeyPhrasesOf(req[u].id)
        /\ tmp[req[t].temp_file] # tmp[req[u].temp_file]

=============================================================================
